---------------------------- MODULE Spec2Model ----------------------------
(***************************************************************************)
(* Model of the real-time broadcast hub of meeting-coach:                  *)
(*   backend/src/server/ws_server.py  MeetingCoachWebSocketServer          *)
(*   backend/main.py                  MeetingCoach.broadcast_update        *)
(*                                                                         *)
(* Two concurrency domains are modelled.  Producer threads stamp an event  *)
(* and put it on message_queue (two separate statements, so two steps).    *)
(* The asyncio event loop runs the broadcast worker, one handler task per  *)
(* connection and the per-client send coroutines; one step of the model is *)
(* the code a task runs between two awaits.  A task that blocks the loop   *)
(* thread synchronously keeps every other task of the loop from stepping.  *)
(*                                                                         *)
(* Spec is the hub with its producer and silent clients; CommandSpec is    *)
(* the hub with clients that send command frames (handle_client_message)   *)
(* while the producer is silent; DirectSpec adds callers that pass         *)
(* broadcast_sync a dict of their own; RaisingSpec adds dicts json.dumps   *)
(* cannot encode; SessionSpec is the hub with one session of               *)
(* MeetingCoach.run; ConnectSpec and ListenSpec are the console client     *)
(*   backend/src/server/console_client.py  ConsoleWebSocketClient          *)
(* against any server; EndToEndSpec composes producer, hub and client.     *)
(***************************************************************************)
EXTENDS Integers, Sequences, FiniteSets, TLC

\* ------------------------------------------------------------------ bounds
MaxEvents == 2
\* threads that call broadcast_update: the recorder's callback thread and the
\* speech-processing loop
NumThreads == 2
\* remote closes and send errors the environment injects in one run
MaxFaults == 1
\* frames the clients send in one run
MaxFrames == 2
\* largest max_retries a connect() call is given
MaxRetries == 2
\* frames that reach the client's socket in one run
MaxArrivals == 3

\* the connections of a run: two display clients
Conns == {1, 2}

VARIABLES
    is_running,     \* MeetingCoachWebSocketServer.is_running
    loop,           \* asyncio.run(start_server()): "init" | "running" |
                    \* "closed" | "failed" (serve could not bind)
    clients,        \* MeetingCoachWebSocketServer.clients
    message_queue,  \* MeetingCoachWebSocketServer.message_queue
    wpc,            \* position of the broadcast_worker task
    pending,        \* clients whose _safe_send of the current gather is outstanding
    cur,            \* id of the event the worker is broadcasting (0: none)
    conn,           \* transport state of each connection
    hpc,            \* position of each handle_client task
    sent,           \* per connection: messages websocket.send was called with
    received,       \* per connection: messages whose send completed
    frame,          \* per connection: the frame handle_client_message is
                    \* answering (NoFrame: none)
    stamped,        \* timestamps of the dicts producer threads have stamped in
                    \* broadcast_update and not yet passed to broadcast_sync
    now,            \* the clock read by time.time()
    faults,         \* number of remote closes and send errors so far
    enqueued,       \* history: every event put on the queue, in put order
    attempted,      \* history: ids of the events handed to broadcast()
    regAt,          \* history: number of events already handed to broadcast()
                    \* when c registered
    failedAt,       \* history: id of the first broadcast event whose send to c raised
    failed,         \* history: connections on which some send has raised
    ppc,            \* position of MeetingCoach.run on the main thread
    speech,         \* process_speech threads recorder.text has started and
                    \* that have not yet broadcast
    cpc,            \* position of ConsoleWebSocketClient.run
    cli_running,    \* ConsoleWebSocketClient.is_running
    websocket,      \* ConsoleWebSocketClient.websocket: "none" | "open" | "closed"
    max_retries,    \* argument of the connect() call in progress or last made
    attempt,        \* loop variable of connect()
    attempts,       \* history: websockets.connect calls of that connect()
    waits,          \* history: asyncio.sleep(retry_delay) calls of that connect()
    result,         \* what that connect() returned: "none" | "true" | "false"
    dashboard,      \* LiveDashboard.current_state (emotional_state, confidence)
    timeline,       \* EmotionalTimeline.entries of the client
    wire,           \* history: the frames that reached the client's socket
    nread,          \* number of those frames the listen loop has taken
    dispatched      \* history: the dicts handle_message was called with

vars == <<is_running, loop, clients, message_queue, wpc, pending, cur, conn,
          hpc, sent, received, frame, stamped, now, faults, enqueued, attempted,
          regAt, failedAt, failed, ppc, speech, cpc, cli_running, websocket,
          max_retries, attempt, attempts, waits, result, dashboard, timeline,
          wire, nread, dispatched>>

hubVars == <<is_running, loop, clients, message_queue, wpc, pending, cur>>
connVars == <<conn, hpc, sent, received, frame>>
envVars == <<stamped, now, faults>>
histVars == <<enqueued, attempted, regAt, failedAt, failed>>
sessionVars == <<ppc, speech>>
connectVars == <<max_retries, attempt, attempts, waits, result>>
displayVars == <<dashboard, timeline>>
listenVars == <<wire, nread, dispatched>>
clientVars == <<cpc, cli_running, websocket, connectVars, displayVars, listenVars>>

\* ---------------------------------------------------------------- messages
\* a dict passed to broadcast_update, after data["timestamp"] = time.time();
\* id stands for the identity of the dict: its position in put order
\* message stands for a text and the value formatted into it; keys is the set
\* of the modelled keys the dict has
NoText == <<"", "">>

Event(n, t) ==
    [type |-> "update", status |-> "", message |-> NoText, id |-> n,
     timestamp |-> t, keys |-> {"type", "timestamp"}]

\* a dict passed to broadcast_sync as its caller built it, with no timestamp
\* key
RawEvent(n) ==
    [type |-> "update", status |-> "", message |-> NoText, id |-> n,
     timestamp |-> 0, keys |-> {"type"}]

\* a dict passed to broadcast_update that holds a value json.dumps cannot
\* encode (bytes, a numpy number): json.dumps(data) raises TypeError
UnserializableEvent(n, t) ==
    [type |-> "update", status |-> "", message |-> NoText, id |-> n,
     timestamp |-> t, keys |-> {"type", "timestamp", "bytes"}]

Serializable(e) == "bytes" \notin e.keys

\* the welcome dict of register_client; its timestamp is the ISO string of
\* datetime.now(), whose value is not modelled
Welcome ==
    [type |-> "connection", status |-> "connected",
     message |-> <<"Connected to Teams Meeting Coach", "">>, id |-> 0,
     timestamp |-> 0, keys |-> {"type", "status", "message", "timestamp"}]

\* the replies of handle_client_message; only the pong has a timestamp key
Pong(t) ==
    [type |-> "pong", status |-> "", message |-> NoText, id |-> 0,
     timestamp |-> t, keys |-> {"type", "timestamp"}]

SessionStatus(st) ==
    [type |-> "session_status", status |-> st, message |-> <<"Session ", st>>,
     id |-> 0, timestamp |-> 0, keys |-> {"type", "status", "message"}]

ErrorReply(text, arg) ==
    [type |-> "error", status |-> "", message |-> <<text, arg>>, id |-> 0,
     timestamp |-> 0, keys |-> {"type", "message"}]

\* the session_status dicts of MeetingCoach.run and cleanup, and the error
\* dict of run's `except Exception`, after broadcast_update has stamped them
SessionEvent(n, t, st) ==
    [type |-> "session_status", status |-> st,
     message |-> <<"Meeting coach session ", st>>, id |-> n, timestamp |-> t,
     keys |-> {"type", "status", "message", "timestamp"}]

ErrorEvent(n, t) ==
    [type |-> "error", status |-> "", message |-> <<"Processing error: ", "str(e)">>,
     id |-> n, timestamp |-> t, keys |-> {"type", "message", "timestamp"}]

\* the meeting_update dict of process_speech, after broadcast_update has
\* stamped it; of its payload the emotional state and the confidence (in
\* tenths) are modelled
MeetingUpdate(n, t, es, cf) ==
    [type |-> "meeting_update", status |-> "", message |-> NoText, id |-> n,
     timestamp |-> t, emotional_state |-> es, confidence |-> cf,
     keys |-> {"type", "timestamp", "emotional_state", "confidence"}]

\* the payloads process_speech broadcasts: an analysis result, and the
\* neutral update of an utterance too short to analyse
Payloads == {<<"calm", 8>>, <<"neutral", 0>>}

IsBroadcast(m) == m.id > 0

\* ------------------------------------------------------------------- queue
\* queue.Queue(): unbounded FIFO, put appends, get takes the oldest item
\* a put that drops the item when the queue already holds one
QueuePutDropping(q, e) == IF Len(q) >= 1 THEN q ELSE Append(q, e)

QueuePut(q, e) == Append(q, e)

\* a get that takes the newest item
QueueBack(q) == q[Len(q)]

QueueFront(q) == Head(q)

\* a get that leaves the item on the queue
QueueKeep(q) == q

QueueRest(q) == Tail(q)

\* ----------------------------------------------------------- the event loop
\* queue.Queue.get(timeout=0.1) is a synchronous call made on the loop thread:
\* while the worker sits in it no other task of the loop runs.
LoopBlocked == wpc = "get"

LoopFree == loop = "running" /\ ~LoopBlocked

\* outcomes of `await websocket.send(message)`: it returns, it raises
\* ConnectionClosed on a closed connection, or it raises another exception
SendOutcomes(c) ==
    IF conn[c] # "open" THEN {"closed"}
    ELSE IF faults < MaxFaults THEN {"ok", "error"} ELSE {"ok"}

FaultsAfter(outcome) == IF outcome = "error" THEN faults + 1 ELSE faults

\* unregister_client: self.clients.discard(websocket)
\* an unregister that puts back a connection it does not find
UnregisterToggle(cs, c) == IF c \in cs THEN cs \ {c} ELSE cs \cup {c}

UnregisterClient(cs, c) == cs \ {c}

\* `except ConnectionClosed: await self.unregister_client(websocket)`;
\* `except Exception: print(...)` leaves the registry alone
AfterSend(cs, c, outcome) ==
    IF outcome = "closed" THEN UnregisterClient(cs, c) ELSE cs

\* register_client: send_to_client(websocket, welcome) addresses the new
\* connection only
\* a welcome sent to every registered client
WelcomeToAll(c) == clients \cup {c}

WelcomeTargets(c) == {c}

\* the list comprehension of broadcast(): one _safe_send per registered client
\* a broadcast to every connection ever accepted
BroadcastToAccepted(cs) == {c \in Conns : conn[c] # "new"}

BroadcastTargets(cs) == cs

\* ------------------------------------------------------------------ frames
\* a text frame a client sends: json tells what json.loads makes of it (an
\* object, another JSON value, or no JSON at all), type is the value of its
\* "type" key ("": no such key), at is the clock when the client sent it
\* (console_client.send_message puts it in the frame's "timestamp")
CommandTypes == {"ping", "start_session", "stop_session"}

FrameBodies ==
    [json : {"object"}, type : CommandTypes \cup {"resume", ""}]
        \cup [json : {"other", "invalid"}, type : {""}]

Frame(b, t) == [json |-> b.json, type |-> b.type, at |-> t]

NoFrame == [json |-> "none", type |-> "", at |-> 0]

\* a msg_type that is 'unknown' whatever the frame says
MsgTypeHidden(f) == "unknown"

\* msg_type = data.get('type', 'unknown')
MsgType(f) == IF f.type = "" THEN "unknown" ELSE f.type

\* a handler that answers a frame it cannot parse like a ping
ReplyPongAlways(f, t) == Pong(t)

\* handle_client_message: the dict it passes to send_to_client for frame f
\* when the clock reads t
Reply(f, t) ==
    IF f.json = "invalid" THEN ErrorReply("Invalid JSON", "")
    ELSE IF f.json # "object" THEN ErrorReply("str(e)", "AttributeError")
    ELSE IF MsgType(f) = "ping" THEN Pong(t)
    ELSE IF MsgType(f) = "start_session" THEN SessionStatus("started")
    ELSE IF MsgType(f) = "stop_session" THEN SessionStatus("stopped")
    ELSE ErrorReply("Unknown message type: ", MsgType(f))

Messages ==
    [type : {"update", "connection", "pong", "session_status", "error"},
     status : {"", "connected", "started", "stopped"},
     message : Seq(STRING), id : 0..(MaxEvents + 2),
     timestamp : 0..(MaxEvents + 1),
     keys : SUBSET {"type", "status", "message", "timestamp", "bytes"}]
    \cup {MeetingUpdate(n, t, pl[1], pl[2]) :
              n \in 1..MaxEvents, t \in 1..MaxEvents, pl \in Payloads}

\* LiveDashboard.__init__: current_state before any update; confidence is
\* counted in tenths
NoStatus == [emotional_state |-> "neutral", confidence |-> 0]

\* the shape of the state
TypeOK ==
    /\ is_running \in BOOLEAN
    /\ loop \in {"init", "running", "closed", "failed"}
    /\ clients \subseteq Conns
    /\ message_queue \in Seq(Messages)
    /\ wpc \in {"none", "sleep", "get", "gather", "done"}
    /\ pending \subseteq Conns
    /\ cur \in 0..(MaxEvents + 2)
    /\ conn \in [Conns -> {"new", "open", "closed"}]
    /\ hpc \in [Conns -> {"new", "welcome", "read", "reply", "done"}]
    /\ \A c \in Conns : sent[c] \in Seq(Messages) /\ received[c] \in Seq(Messages)
    /\ \A c \in Conns :
           \/ frame[c] = NoFrame /\ hpc[c] # "reply"
           \/ /\ [json |-> frame[c].json, type |-> frame[c].type] \in FrameBodies
              /\ frame[c].at \in 1..now
              /\ hpc[c] \in {"reply", "done"}
    /\ stamped \subseteq 1..MaxEvents
    /\ now \in 1..(MaxEvents + 1)
    /\ faults \in 0..MaxFaults
    /\ ppc \in {"init", "loop", "cleanup", "returned", "interrupted"}
    /\ speech \in 0..(MaxEvents + 1)
    /\ cpc \in {"idle", "attempt", "wait", "connected", "listen", "listened"}
    /\ cli_running \in BOOLEAN
    /\ websocket \in {"none", "open", "closed"}
    /\ max_retries \in 0..MaxRetries
    /\ attempt \in 0..MaxRetries
    /\ attempts \in 0..MaxRetries
    /\ waits \in 0..MaxRetries
    /\ result \in {"none", "true", "false"}
    /\ dashboard \in [emotional_state : STRING, confidence : 0..10]
    /\ Len(timeline) <= MaxArrivals
    /\ Len(wire) <= MaxArrivals
    /\ nread \in 0..Len(wire)
    /\ Len(dispatched) <= nread

Init ==
    /\ is_running = FALSE
    /\ loop = "init"
    /\ clients = {}
    /\ message_queue = <<>>
    /\ wpc = "none"
    /\ pending = {}
    /\ cur = 0
    /\ conn = [c \in Conns |-> "new"]
    /\ hpc = [c \in Conns |-> "new"]
    /\ sent = [c \in Conns |-> <<>>]
    /\ received = [c \in Conns |-> <<>>]
    /\ frame = [c \in Conns |-> NoFrame]
    /\ stamped = {}
    /\ now = 1
    /\ faults = 0
    /\ enqueued = <<>>
    /\ attempted = <<>>
    /\ regAt = [c \in Conns |-> 0]
    /\ failedAt = [c \in Conns |-> 0]
    /\ failed = {}
    /\ ppc = "init"
    /\ speech = 0
    /\ cpc = "idle"
    /\ cli_running = FALSE
    /\ websocket = "none"
    /\ max_retries = 0
    /\ attempt = 0
    /\ attempts = 0
    /\ waits = 0
    /\ result = "none"
    /\ dashboard = NoStatus
    /\ timeline = <<>>
    /\ wire = <<>>
    /\ nread = 0
    /\ dispatched = <<>>

\* ------------------------------------------------------- producer threads
\* broadcast_update, first statement, on some thread:
\* data["timestamp"] = time.time()
Stamp ==
    /\ Cardinality(stamped) < NumThreads
    /\ Len(enqueued) + Cardinality(stamped) < MaxEvents
    /\ stamped' = stamped \cup {now}
    /\ now' = now + 1
    /\ UNCHANGED <<sessionVars, clientVars, hubVars, connVars, faults, histVars>>

\* a broadcast_sync that drops closed connections from the registry on the
\* producer's thread
BroadcastSyncPrunes(t) ==
    /\ t \in stamped
    /\ LET e == Event(Len(enqueued) + 1, t)
       IN /\ message_queue' = QueuePut(message_queue, e)
          /\ enqueued' = Append(enqueued, e)
    /\ stamped' = stamped \ {t}
    /\ clients' = {c \in clients : conn[c] = "open"}
    /\ UNCHANGED <<sessionVars, clientVars, is_running, loop, wpc, pending, cur, connVars,
                   now, faults, attempted, regAt, failedAt, failed>>

\* broadcast_update, second statement, on the thread that stamped t:
\* self.ws_server.broadcast_sync(data), that is self.message_queue.put(data)
BroadcastSync(t) ==
    /\ t \in stamped
    /\ LET e == Event(Len(enqueued) + 1, t)
       IN /\ message_queue' = QueuePut(message_queue, e)
          /\ enqueued' = Append(enqueued, e)
    /\ stamped' = stamped \ {t}
    /\ UNCHANGED <<sessionVars, clientVars, is_running, loop, clients, wpc, pending, cur, connVars,
                   now, faults, attempted, regAt, failedAt, failed>>

\* broadcast_update with a dict json.dumps cannot encode; the put succeeds
BroadcastSyncUnserializable(t) ==
    /\ t \in stamped
    /\ LET e == UnserializableEvent(Len(enqueued) + 1, t)
       IN /\ message_queue' = QueuePut(message_queue, e)
          /\ enqueued' = Append(enqueued, e)
    /\ stamped' = stamped \ {t}
    /\ UNCHANGED <<sessionVars, clientVars, is_running, loop, clients, wpc, pending, cur, connVars,
                   now, faults, attempted, regAt, failedAt, failed>>

\* broadcast_sync called by code other than broadcast_update, with a dict
\* that has no timestamp key: self.message_queue.put(data)
BroadcastSyncDirect ==
    /\ Len(enqueued) + Cardinality(stamped) < MaxEvents
    /\ LET e == RawEvent(Len(enqueued) + 1)
       IN /\ message_queue' = QueuePut(message_queue, e)
          /\ enqueued' = Append(enqueued, e)
    /\ UNCHANGED <<sessionVars, clientVars, is_running, loop, clients, wpc, pending, cur, connVars,
                   envVars, attempted, regAt, failedAt, failed>>

\* -------------------------------------------------------- MeetingCoach.run
\* broadcast_update(data) as one step of the calling thread: the dict is
\* stamped with the clock and put on the queue
BroadcastUpdate(e) ==
    /\ message_queue' = QueuePut(message_queue, e)
    /\ enqueued' = Append(enqueued, e)

\* events run() and its threads may still broadcast before cleanup's
LoopBudget == Len(enqueued) + speech < MaxEvents + 1

\* run() up to the while loop: broadcasts session_status started, sets
\* is_running
RunStarts ==
    /\ ppc = "init"
    /\ BroadcastUpdate(SessionEvent(Len(enqueued) + 1, now, "started"))
    /\ ppc' = "loop"
    /\ UNCHANGED <<is_running, loop, clients, wpc, pending, cur, connVars, envVars,
                   attempted, regAt, failedAt, failed, speech, clientVars>>

\* self.recorder.text(self.process_speech) returns: an utterance is complete
\* and the recorder has started a thread that runs process_speech on its text
TextReturns ==
    /\ ppc = "loop"
    /\ LoopBudget
    /\ speech' = speech + 1
    /\ UNCHANGED <<hubVars, connVars, envVars, histVars, ppc, clientVars>>

\* a process_speech thread analyses its text and broadcasts; its several
\* broadcasts (transcription, emotion_update, meeting_update, ...) are one
\* event here
ProcessSpeech ==
    /\ speech > 0
    /\ BroadcastUpdate(Event(Len(enqueued) + 1, now))
    /\ speech' = speech - 1
    /\ UNCHANGED <<is_running, loop, clients, wpc, pending, cur, connVars, envVars,
                   attempted, regAt, failedAt, failed, ppc, clientVars>>

\* recorder.text raises an Exception: run() broadcasts an error event, sleeps
\* and goes round the loop again
TextRaises ==
    /\ ppc = "loop"
    /\ LoopBudget
    /\ BroadcastUpdate(ErrorEvent(Len(enqueued) + 1, now))
    /\ UNCHANGED <<is_running, loop, clients, wpc, pending, cur, connVars, envVars,
                   attempted, regAt, failedAt, failed, sessionVars, clientVars>>

\* KeyboardInterrupt in the loop: `break` or the outer except, then the
\* finally clause calls cleanup, which clears is_running and calls
\* recorder.shutdown()
Interrupt ==
    /\ ppc = "loop"
    /\ ppc' = "cleanup"
    /\ UNCHANGED <<hubVars, connVars, envVars, histVars, speech, clientVars>>

\* recorder.shutdown() returns or raises an Exception (printed); cleanup
\* broadcasts session_status stopped and run() returns.  shutdown stops the
\* recorder's own threads; the threads recorder.text started for
\* process_speech are not joined.
CleanupBroadcasts ==
    /\ ppc = "cleanup"
    /\ BroadcastUpdate(SessionEvent(Len(enqueued) + 1, now, "stopped"))
    /\ ppc' = "returned"
    /\ UNCHANGED <<is_running, loop, clients, wpc, pending, cur, connVars, envVars,
                   attempted, regAt, failedAt, failed, speech, clientVars>>

\* a second KeyboardInterrupt while cleanup is in recorder.shutdown(): `except
\* Exception` does not catch it, cleanup and run() are left at once and main()
\* catches it
CleanupInterrupted ==
    /\ ppc = "cleanup"
    /\ ppc' = "interrupted"
    /\ UNCHANGED <<hubVars, connVars, envVars, histVars, speech, clientVars>>

\* ------------------------------------------------------------ start_server
StartServer ==
    /\ loop = "init"
    /\ is_running' = TRUE
    /\ loop' = "running"
    /\ wpc' = "sleep"
    /\ UNCHANGED <<sessionVars, clientVars, clients, message_queue, pending, cur, connVars, envVars, histVars>>

\* start_server when serve() cannot bind host:port: is_running is set and the
\* worker task created, `async with serve(...)` raises OSError, asyncio.run
\* cancels the worker and re-raises, run()'s finally clears is_running and the
\* exception ends the server thread (a daemon thread of main()).  main() has
\* slept two seconds meanwhile and calls coach.run() without looking at the
\* server thread, so the producer threads run as before.
BindFails ==
    /\ loop = "init"
    /\ loop' = "failed"
    /\ is_running' = FALSE
    /\ wpc' = "done"
    /\ UNCHANGED <<sessionVars, clientVars, clients, message_queue, pending, cur, connVars, envVars, histVars>>

\* -------------------------------------------------------- broadcast_worker
\* a worker that an exception of broadcast() ends
AfterBroadcastRaisesStops == "done"

\* broadcast() raises: the outer `except Exception` of broadcast_worker prints
\* and the while loop goes on, without the sleep, into the next
\* message_queue.get(timeout=0.1)
AfterBroadcastRaises == IF is_running THEN "get" ELSE "done"

\* data = self.message_queue.get(...); await self.broadcast(data), up to the
\* await of gather.  broadcast returns at once when the registry is empty;
\* otherwise it calls json.dumps(data), which raises on a dict it cannot encode.
TakeAndBroadcast ==
    LET e == QueueFront(message_queue)
        targets == BroadcastTargets(clients)
    IN /\ message_queue' = QueueRest(message_queue)
       /\ attempted' = Append(attempted, e.id)
       /\ IF targets = {}
          THEN /\ wpc' = "sleep"
               /\ UNCHANGED <<pending, cur, sent>>
          ELSE IF ~Serializable(e)
          THEN /\ wpc' = AfterBroadcastRaises
               /\ UNCHANGED <<pending, cur, sent>>
          ELSE /\ wpc' = "gather"
               /\ pending' = targets
               /\ cur' = e.id
               /\ sent' = [c \in Conns |->
                             IF c \in targets THEN Append(sent[c], e) ELSE sent[c]]

\* one pass of `while self.is_running:` up to its first suspension
WorkerIter ==
    /\ loop = "running"
    /\ wpc = "sleep"
    /\ IF ~is_running
       THEN /\ wpc' = "done"
            /\ UNCHANGED <<message_queue, pending, cur, sent, attempted>>
       ELSE IF message_queue # <<>>
       THEN TakeAndBroadcast
       ELSE /\ wpc' = "get"
            /\ UNCHANGED <<message_queue, pending, cur, sent, attempted>>
    /\ UNCHANGED <<sessionVars, clientVars, frame, is_running, loop, clients, conn, hpc, received, envVars,
                   enqueued, regAt, failedAt, failed>>

\* the blocked get returns the item a producer thread has put meanwhile
WorkerGetItem ==
    /\ loop = "running"
    /\ wpc = "get"
    /\ message_queue # <<>>
    /\ TakeAndBroadcast
    /\ UNCHANGED <<sessionVars, clientVars, frame, is_running, loop, clients, conn, hpc, received, envVars,
                   enqueued, regAt, failedAt, failed>>

\* the blocked get times out: queue.Empty, then await asyncio.sleep(0.01)
WorkerGetEmpty ==
    /\ loop = "running"
    /\ wpc = "get"
    /\ message_queue = <<>>
    /\ wpc' = "sleep"
    /\ UNCHANGED <<sessionVars, clientVars, is_running, loop, clients, message_queue, pending, cur,
                   connVars, envVars, histVars>>

\* _safe_send(c, message) finishes: sent, ConnectionClosed, or another
\* exception.  gather returns once every _safe_send has finished, and the
\* worker goes on to await asyncio.sleep(0.01).
SafeSendDone(c) ==
    /\ LoopFree
    /\ wpc = "gather"
    /\ c \in pending
    /\ \E outcome \in SendOutcomes(c) :
         /\ received' = [received EXCEPT ![c] =
                IF outcome = "ok" THEN Append(@, enqueued[cur]) ELSE @]
         /\ clients' = AfterSend(clients, c, outcome)
         /\ failedAt' = [failedAt EXCEPT ![c] =
                IF outcome # "ok" /\ @ = 0 THEN cur ELSE @]
         /\ failed' = (IF outcome = "ok" THEN failed ELSE failed \cup {c})
         /\ faults' = FaultsAfter(outcome)
    /\ pending' = pending \ {c}
    /\ IF pending' = {}
       THEN wpc' = "sleep" /\ cur' = 0
       ELSE UNCHANGED <<wpc, cur>>
    /\ UNCHANGED <<sessionVars, clientVars, frame, is_running, loop, message_queue, conn, hpc, sent,
                   stamped, now, enqueued, attempted, regAt>>

\* ------------------------------------------------------------ handle_client
\* a register_client that adds the connection and suspends before it calls
\* send for the welcome
RegisterClientSuspends(c) ==
    /\ LoopFree
    /\ conn[c] = "new"
    /\ conn' = [conn EXCEPT ![c] = "open"]
    /\ hpc' = [hpc EXCEPT ![c] = "welcome"]
    /\ clients' = clients \cup {c}
    /\ regAt' = [regAt EXCEPT ![c] = Len(attempted)]
    /\ UNCHANGED <<sessionVars, clientVars, frame, sent, is_running, loop, message_queue, wpc, pending,
                   cur, received, envVars, enqueued, attempted, failedAt, failed>>

\* a connection is accepted and handle_client runs register_client up to the
\* await of the welcome send
RegisterClient(c) ==
    /\ LoopFree
    /\ conn[c] = "new"
    /\ conn' = [conn EXCEPT ![c] = "open"]
    /\ hpc' = [hpc EXCEPT ![c] = "welcome"]
    /\ clients' = clients \cup {c}
    /\ sent' = [d \in Conns |->
                IF d \in WelcomeTargets(c) THEN Append(sent[d], Welcome) ELSE sent[d]]
    /\ regAt' = [regAt EXCEPT ![c] = Len(attempted)]
    /\ UNCHANGED <<sessionVars, clientVars, frame, is_running, loop, message_queue, wpc, pending, cur, received,
                   envVars, enqueued, attempted, failedAt, failed>>

\* send_to_client finishes for the welcome; the handler enters its read loop
WelcomeDone(c) ==
    /\ LoopFree
    /\ hpc[c] = "welcome"
    /\ \E outcome \in SendOutcomes(c) :
         /\ received' = [received EXCEPT ![c] =
                IF outcome = "ok" THEN Append(@, Welcome) ELSE @]
         /\ clients' = AfterSend(clients, c, outcome)
         /\ failed' = (IF outcome = "ok" THEN failed ELSE failed \cup {c})
         /\ faults' = FaultsAfter(outcome)
    /\ hpc' = [hpc EXCEPT ![c] = "read"]
    /\ UNCHANGED <<sessionVars, clientVars, frame, is_running, loop, message_queue, wpc, pending, cur, conn,
                   sent, stamped, now, enqueued, attempted, regAt, failedAt>>

\* a handler that ends without running its finally clause
HandlerExitKeeps(c) ==
    /\ LoopFree
    /\ hpc[c] = "read"
    /\ conn[c] = "closed"
    /\ hpc' = [hpc EXCEPT ![c] = "done"]
    /\ UNCHANGED <<sessionVars, clientVars, frame, is_running, loop, clients, message_queue, wpc, pending, cur,
                   conn, sent, received, envVars, histVars>>

\* `async for message in websocket` ends on a closed connection; the finally
\* clause unregisters
HandlerExit(c) ==
    /\ LoopFree
    /\ hpc[c] = "read"
    /\ conn[c] = "closed"
    /\ hpc' = [hpc EXCEPT ![c] = "done"]
    /\ clients' = UnregisterClient(clients, c)
    /\ UNCHANGED <<sessionVars, clientVars, frame, is_running, loop, message_queue, wpc, pending, cur, conn,
                   sent, received, envVars, histVars>>

\* ---------------------------------------------------- handle_client_message
IsReply(m) == m.type \in {"pong", "session_status", "error"}

Replies(s) == SelectSeq(s, IsReply)

\* the reply whose send_to_client is outstanding: the handler awaits each
\* reply before it reads the next frame
LastReply(s) == Replies(s)[Len(Replies(s))]

\* frames read so far, one reply send each
FramesOn(c) == Len(Replies(sent[c]))

RECURSIVE FramesReadOn(_)
FramesReadOn(cs) ==
    IF cs = {} THEN 0
    ELSE LET c == CHOOSE x \in cs : TRUE
         IN FramesOn(c) + FramesReadOn(cs \ {c})

\* a reply sent to every registered client
ReplyToAll(c) == clients \cup {c}

\* send_to_client(websocket, reply): the reply goes to the connection the
\* frame came from
ReplyTargets(c) == {c}

\* a handler that lets the AttributeError of a JSON value that is no object
\* escape: no reply, and the exception ends handle_client
HandleMessageRaises(c, b, at) ==
    /\ LoopFree
    /\ hpc[c] = "read"
    /\ conn[c] = "open"
    /\ FramesReadOn(Conns) < MaxFrames
    /\ frame' = [frame EXCEPT ![c] = Frame(b, at)]
    /\ IF b.json = "other"
       THEN /\ hpc' = [hpc EXCEPT ![c] = "done"]
            /\ clients' = UnregisterClient(clients, c)
            /\ sent' = sent
       ELSE /\ hpc' = [hpc EXCEPT ![c] = "reply"]
            /\ clients' = clients
            /\ sent' = [sent EXCEPT ![c] = Append(@, Reply(Frame(b, at), now))]
    /\ UNCHANGED <<sessionVars, clientVars, is_running, loop, message_queue, wpc, pending, cur, conn,
                   received, envVars, histVars>>

\* a handler that puts its reply on the broadcast queue as well
HandleMessageEnqueues(c, b, at) ==
    /\ LoopFree
    /\ hpc[c] = "read"
    /\ conn[c] = "open"
    /\ FramesReadOn(Conns) < MaxFrames
    /\ frame' = [frame EXCEPT ![c] = Frame(b, at)]
    /\ sent' = [sent EXCEPT ![c] = Append(@, Reply(Frame(b, at), now))]
    /\ message_queue' = QueuePut(message_queue, Reply(Frame(b, at), now))
    /\ hpc' = [hpc EXCEPT ![c] = "reply"]
    /\ UNCHANGED <<sessionVars, clientVars, is_running, loop, clients, wpc, pending, cur, conn, received,
                   envVars, histVars>>

\* `async for message in websocket` yields a frame the client of c sent at
\* time `at`, and handle_client_message runs up to the await of the reply's
\* send
HandleMessage(c, b, at) ==
    /\ LoopFree
    /\ hpc[c] = "read"
    /\ conn[c] = "open"
    /\ FramesReadOn(Conns) < MaxFrames
    /\ frame' = [frame EXCEPT ![c] = Frame(b, at)]
    /\ sent' = [d \in Conns |->
                IF d \in ReplyTargets(c)
                THEN Append(sent[d], Reply(Frame(b, at), now)) ELSE sent[d]]
    /\ hpc' = [hpc EXCEPT ![c] = "reply"]
    /\ UNCHANGED <<sessionVars, clientVars, hubVars, conn, received, envVars, histVars>>

\* send_to_client finishes for the reply; the handler reads on
ReplyDone(c) ==
    /\ LoopFree
    /\ hpc[c] = "reply"
    /\ \E outcome \in SendOutcomes(c) :
         /\ received' = [received EXCEPT ![c] =
                IF outcome = "ok" THEN Append(@, LastReply(sent[c])) ELSE @]
         /\ clients' = AfterSend(clients, c, outcome)
         /\ failed' = (IF outcome = "ok" THEN failed ELSE failed \cup {c})
         /\ faults' = FaultsAfter(outcome)
    /\ hpc' = [hpc EXCEPT ![c] = "read"]
    /\ frame' = [frame EXCEPT ![c] = NoFrame]
    /\ UNCHANGED <<sessionVars, clientVars, is_running, loop, message_queue, wpc, pending, cur, conn,
                   sent, stamped, now, enqueued, attempted, regAt, failedAt>>

\* the remote end closes the connection
RemoteClose(c) ==
    /\ conn[c] = "open"
    /\ faults < MaxFaults
    /\ faults' = faults + 1
    /\ conn' = [conn EXCEPT ![c] = "closed"]
    /\ UNCHANGED <<sessionVars, clientVars, frame, hubVars, hpc, sent, received, stamped, now, histVars>>

\* ------------------------------------------------- ConsoleWebSocketClient
\* a text frame on the client's socket: json tells what json.loads makes of
\* it, keys which of the modelled keys the object has; confidence counts
\* tenths, and -1 stands for a value that is no number
ServerFrame(ty, st, es, cf, ks) ==
    [json |-> "object", type |-> ty, status |-> st, emotional_state |-> es,
     confidence |-> cf, keys |-> ks]

InvalidFrame ==
    [json |-> "invalid", type |-> "", status |-> "", emotional_state |-> "",
     confidence |-> 0, keys |-> {}]

\* valid JSON that is no object, such as a list
OtherJsonFrame ==
    [json |-> "other", type |-> "", status |-> "", emotional_state |-> "",
     confidence |-> 0, keys |-> {}]

\* the welcome as the client's socket receives it
WelcomeFrame == ServerFrame("connection", "connected", "", 0, {"type", "status"})

\* the frames a server may put on the client's socket
ServerFrames ==
    { WelcomeFrame,
      ServerFrame("meeting_update", "", "calm", 8,
                  {"type", "emotional_state", "confidence"}),
      ServerFrame("session_status", "started", "", 0, {"type", "status"}),
      ServerFrame("emotion_update", "", "calm", -1,
                  {"type", "emotional_state", "confidence"}),
      ServerFrame("resume", "", "", 0, {"type"}),
      ServerFrame("", "", "", 0, {}),
      InvalidFrame,
      OtherJsonFrame }

\* the branches of handle_message
KnownTypes ==
    {"connection", "meeting_update", "transcription", "emotion_update", "alert",
     "session_status", "recording_status", "timeline_update", "pong", "error"}

\* json.loads(message) returns
Parses(f) == f.json # "invalid"

\* msg_type = data.get("type", "unknown")
ClientMsgType(f) == IF "type" \in f.keys THEN f.type ELSE "unknown"

\* handle_message(data) raises: data.get on a value that is no dict, or the
\* format spec .2f applied to a confidence that is no number
HandleRaises(f) ==
    \/ f.json # "object"
    \/ ClientMsgType(f) = "emotion_update" /\ f.confidence < 0

\* a dashboard that does not store the update
UpdateCurrentStatusKeeps(d, f) == d

\* dashboard.update_current_status with the values handle_message reads from
\* a meeting_update, data.get's defaults included
UpdateCurrentStatus(d, f) ==
    [emotional_state |-> IF "emotional_state" \in f.keys
                         THEN f.emotional_state ELSE "unknown",
     confidence |-> IF "confidence" \in f.keys THEN f.confidence ELSE 0]

\* EmotionalTimeline(window_minutes=15, max_entries=200)
max_entries == 200

\* timeline.add_entry(...) appends one entry; a timeline that holds
\* max_entries entries drops its oldest
AddEntry(tl, f) ==
    LET e == [emotional_state |-> IF "emotional_state" \in f.keys
                                  THEN f.emotional_state ELSE "unknown",
              confidence |-> IF "confidence" \in f.keys THEN f.confidence ELSE 0]
    IN IF Len(tl) < max_entries THEN Append(tl, e) ELSE Append(Tail(tl), e)

\* handle_message: what it leaves in dashboard.current_state
DashboardAfter(d, f) ==
    IF ClientMsgType(f) = "meeting_update" THEN UpdateCurrentStatus(d, f) ELSE d

\* a handle_message that clears the timeline on a type it does not know
TimelineAfterClears(tl, f) ==
    IF ClientMsgType(f) = "meeting_update" THEN AddEntry(tl, f)
    ELSE IF ClientMsgType(f) = "session_status" /\ f.status = "started" THEN <<>>
    ELSE IF ClientMsgType(f) \notin KnownTypes THEN <<>>
    ELSE tl

\* handle_message: what it leaves in self.timeline; session_status started
\* replaces the timeline with a new one
TimelineAfter(tl, f) ==
    IF ClientMsgType(f) = "meeting_update" THEN AddEntry(tl, f)
    ELSE IF ClientMsgType(f) = "session_status" /\ f.status = "started" THEN <<>>
    ELSE tl

\* range(max_retries) when connect() is called with m: the loop body runs or
\* connect returns False at once
ConnectCalled(m) ==
    /\ cpc = "idle"
    /\ max_retries' = m
    /\ attempt' = 0
    /\ attempts' = 0
    /\ waits' = 0
    /\ IF m > 0
       THEN cpc' = "attempt" /\ result' = "none"
       ELSE cpc' = "idle" /\ result' = "false"
    /\ UNCHANGED <<hubVars, connVars, envVars, histVars, sessionVars,
                   cli_running, websocket, displayVars, listenVars>>

\* a connect() that retries without looking at max_retries
LastAttemptNever == FALSE

\* attempt < max_retries - 1 is false
LastAttempt == attempt >= max_retries - 1

\* `await websockets.connect(self.server_url)` returns (ok) or raises; after a
\* failure connect sleeps retry_delay unless this was the last attempt
ConnectAttempt(ok) ==
    /\ cpc = "attempt"
    /\ attempts' = attempts + 1
    /\ IF ok
       THEN /\ websocket' = "open"
            /\ cli_running' = TRUE
            /\ result' = "true"
            /\ cpc' = "connected"
            /\ nread' = Len(wire)
            /\ UNCHANGED waits
       ELSE /\ IF LastAttempt
               THEN cpc' = "idle" /\ result' = "false" /\ UNCHANGED waits
               ELSE cpc' = "wait" /\ waits' = waits + 1 /\ UNCHANGED result
            /\ UNCHANGED <<websocket, cli_running, nread>>
    /\ UNCHANGED <<hubVars, connVars, envVars, histVars, sessionVars,
                   max_retries, attempt, displayVars, wire, dispatched>>

\* asyncio.sleep(retry_delay) returns: next value of the loop variable
RetryDelayOver ==
    /\ cpc = "wait"
    /\ attempt' = attempt + 1
    /\ cpc' = "attempt"
    /\ UNCHANGED <<hubVars, connVars, envVars, histVars, sessionVars,
                   cli_running, websocket, max_retries, attempts, waits, result,
                   displayVars, listenVars>>

\* run(): connect() returned True, listen() is entered
ListenEntered ==
    /\ cpc = "connected"
    /\ cpc' = "listen"
    /\ UNCHANGED <<hubVars, connVars, envVars, histVars, sessionVars,
                   cli_running, websocket, connectVars, displayVars, listenVars>>

\* a frame reaches the client's socket
FrameArrives(f) ==
    /\ websocket = "open"
    /\ cpc \in {"connected", "listen"}
    /\ Len(wire) < MaxArrivals
    /\ wire' = Append(wire, f)
    /\ UNCHANGED <<hubVars, connVars, envVars, histVars, sessionVars,
                   cpc, cli_running, websocket, connectVars, displayVars,
                   nread, dispatched>>

\* a listen loop that an exception of handle_message ends
ListenStateStops(f) == IF Parses(f) /\ HandleRaises(f) THEN "listened" ELSE "listen"

\* the two inner except clauses of listen print and the loop goes on
ListenState(f) == "listen"

\* one pass of `async for message in self.websocket`: json.loads, then
\* handle_message; JSONDecodeError and any other exception are printed
ListenFrame ==
    /\ cpc = "listen"
    /\ nread < Len(wire)
    /\ LET f == wire[nread + 1]
       IN /\ nread' = nread + 1
          /\ dispatched' = (IF Parses(f) THEN Append(dispatched, f) ELSE dispatched)
          /\ IF Parses(f) /\ ~HandleRaises(f)
             THEN /\ dashboard' = DashboardAfter(dashboard, f)
                  /\ timeline' = TimelineAfter(timeline, f)
             ELSE UNCHANGED <<dashboard, timeline>>
          /\ cpc' = ListenState(f)
          /\ cli_running' = (IF cpc' = "listen" THEN cli_running ELSE FALSE)
    /\ UNCHANGED <<hubVars, connVars, envVars, histVars, sessionVars,
                   websocket, connectVars, wire>>

\* the server closes the connection
ServerCloses ==
    /\ websocket = "open"
    /\ cpc \in {"connected", "listen"}
    /\ websocket' = "closed"
    /\ UNCHANGED <<hubVars, connVars, envVars, histVars, sessionVars,
                   cpc, cli_running, connectVars, displayVars, listenVars>>

\* a listen() without its finally clause
ListenReturnsKeepsRunning(cancelled) ==
    /\ cpc = "listen"
    /\ cancelled \/ (websocket = "closed" /\ nread = Len(wire))
    /\ cpc' = "listened"
    /\ UNCHANGED <<hubVars, connVars, envVars, histVars, sessionVars,
                   cli_running, websocket, connectVars, displayVars, listenVars>>

\* listen() returns: the iteration ends on the closed connection once the
\* frames received before the close are taken (ConnectionClosed), or the task
\* is cancelled (Ctrl+C); `finally: self.is_running = False`
ListenReturns(cancelled) ==
    /\ cpc = "listen"
    /\ cancelled \/ (websocket = "closed" /\ nread = Len(wire))
    /\ cli_running' = FALSE
    /\ cpc' = "listened"
    /\ UNCHANGED <<hubVars, connVars, envVars, histVars, sessionVars,
                   websocket, connectVars, displayVars, listenVars>>

\* run()'s finally clause: disconnect() clears is_running and closes the
\* socket
Disconnect ==
    /\ cpc = "listened"
    /\ cli_running' = FALSE
    /\ websocket' = (IF websocket = "none" THEN "none" ELSE "closed")
    /\ cpc' = "idle"
    /\ UNCHANGED <<hubVars, connVars, envVars, histVars, sessionVars,
                   connectVars, displayVars, listenVars>>

\* ------------------------------------------------------------ end to end
\* the connection of the console client at the hub
ClientConn == CHOOSE c \in Conns : TRUE

\* json.dumps(data) at the hub, json.loads(message) at the client: an object
\* with the keys of the dict and their values
ToFrame(m) ==
    ServerFrame(m.type, m.status,
                IF "emotional_state" \in m.keys THEN m.emotional_state ELSE "",
                IF "confidence" \in m.keys THEN m.confidence ELSE 0,
                m.keys \cap {"type", "status", "emotional_state", "confidence"})

\* broadcast_update of a meeting_update, second statement, on the thread that
\* stamped t
BroadcastMeetingUpdate(t, pl) ==
    /\ t \in stamped
    /\ BroadcastUpdate(MeetingUpdate(Len(enqueued) + 1, t, pl[1], pl[2]))
    /\ stamped' = stamped \ {t}
    /\ UNCHANGED <<is_running, loop, clients, wpc, pending, cur, connVars,
                   now, faults, attempted, regAt, failedAt, failed,
                   sessionVars, clientVars>>

\* websockets.connect succeeds when the hub is serving
HubAccepts == loop = "running" /\ conn[ClientConn] = "new"

\* the hub runs handle_client for the connection the client has opened
ClientRegisters == websocket = "open" /\ RegisterClient(ClientConn)

\* a send on the client's connection that raises nothing
SendSucceeds ==
    /\ faults' = faults
    /\ SafeSendDone(ClientConn) \/ WelcomeDone(ClientConn)

\* the next message the hub has sent on the connection reaches the client's
\* socket
Transport ==
    /\ Len(wire) < Len(sent[ClientConn])
    /\ FrameArrives(ToFrame(sent[ClientConn][Len(wire) + 1]))

\* run(): asyncio.run returns (interrupt or error): `async with serve` closes
\* every connection, the handlers' finally clauses unregister, the worker task
\* is cancelled; then `finally: self.is_running = False`
RunReturns ==
    /\ loop = "running"
    /\ loop' = "closed"
    /\ is_running' = FALSE
    /\ wpc' = "done"
    /\ pending' = {}
    /\ cur' = 0
    /\ clients' = {}
    /\ conn' = [c \in Conns |-> IF conn[c] = "open" THEN "closed" ELSE conn[c]]
    /\ hpc' = [c \in Conns |-> IF hpc[c] = "new" THEN "new" ELSE "done"]
    /\ UNCHANGED <<sessionVars, clientVars, frame, message_queue, sent, received, envVars, histVars>>

Next ==
    \/ Stamp
    \/ \E t \in stamped : BroadcastSync(t)
    \/ StartServer
    \/ BindFails
    \/ WorkerIter
    \/ WorkerGetItem
    \/ WorkerGetEmpty
    \/ \E c \in Conns : SafeSendDone(c)
    \/ \E c \in Conns : RegisterClient(c)
    \/ \E c \in Conns : WelcomeDone(c)
    \/ \E c \in Conns : HandlerExit(c)
    \/ \E c \in Conns : RemoteClose(c)
    \/ RunReturns

Spec == Init /\ [][Next]_vars

\* the hub with callers of broadcast_sync besides broadcast_update
DirectNext == Next \/ BroadcastSyncDirect

DirectSpec == Init /\ [][DirectNext]_vars

\* the hub with a producer whose dicts json.dumps may not be able to encode
RaisingNext == Next \/ \E t \in stamped : BroadcastSyncUnserializable(t)

RaisingSpec == Init /\ [][RaisingNext]_vars

\* the hub with one session of MeetingCoach.run as its producer
SessionNext ==
    \/ RunStarts
    \/ TextReturns
    \/ ProcessSpeech
    \/ TextRaises
    \/ Interrupt
    \/ CleanupBroadcasts
    \/ CleanupInterrupted
    \/ StartServer
    \/ BindFails
    \/ WorkerIter
    \/ WorkerGetItem
    \/ WorkerGetEmpty
    \/ \E c \in Conns : SafeSendDone(c)
    \/ \E c \in Conns : RegisterClient(c)
    \/ \E c \in Conns : WelcomeDone(c)

SessionSpec == Init /\ [][SessionNext]_vars

\* the console client, run again and again with any max_retries, and a
\* server that may be down, sends welcomes and closes at any time
ConnectNext ==
    \/ \E m \in 0..MaxRetries : ConnectCalled(m)
    \/ \E ok \in BOOLEAN : ConnectAttempt(ok)
    \/ RetryDelayOver
    \/ ListenEntered
    \/ FrameArrives(WelcomeFrame)
    \/ ListenFrame
    \/ ServerCloses
    \/ \E cancelled \in BOOLEAN : ListenReturns(cancelled)
    \/ Disconnect

ConnectSpec == Init /\ [][ConnectNext]_vars

\* connect() is a coroutine of the client's own event loop: its awaits
\* (websockets.connect, asyncio.sleep) return or raise
ConnectFairSpec ==
    ConnectSpec /\ WF_vars(\E ok \in BOOLEAN : ConnectAttempt(ok))
                /\ WF_vars(RetryDelayOver)

\* the console client, connecting in one attempt, and a server that may be
\* down, sends any frame and closes at any time
ListenNext ==
    \/ ConnectCalled(1)
    \/ \E ok \in BOOLEAN : ConnectAttempt(ok)
    \/ ListenEntered
    \/ \E f \in ServerFrames : FrameArrives(f)
    \/ ListenFrame
    \/ ServerCloses
    \/ \E cancelled \in BOOLEAN : ListenReturns(cancelled)
    \/ Disconnect

ListenSpec == Init /\ [][ListenNext]_vars

\* producer, hub and console client on a connection that stays up
EndToEndNext ==
    \/ StartServer
    \/ Stamp
    \/ \E t \in stamped : \E pl \in Payloads : BroadcastMeetingUpdate(t, pl)
    \/ WorkerIter
    \/ WorkerGetItem
    \/ WorkerGetEmpty
    \/ \E m \in 1..MaxRetries : ConnectCalled(m)
    \/ ConnectAttempt(HubAccepts)
    \/ RetryDelayOver
    \/ ClientRegisters
    \/ SendSucceeds
    \/ ListenEntered
    \/ Transport
    \/ ListenFrame

EndToEndSpec == Init /\ [][EndToEndNext]_vars

\* the hub with clients that send commands while the producer is silent
CommandNext ==
    \/ StartServer
    \/ BindFails
    \/ WorkerIter
    \/ WorkerGetEmpty
    \/ \E c \in Conns : RegisterClient(c)
    \/ \E c \in Conns : WelcomeDone(c)
    \/ \E c \in Conns : \E b \in FrameBodies : \E at \in 1..now :
           HandleMessage(c, b, at)
    \/ \E c \in Conns : ReplyDone(c)
    \/ \E c \in Conns : HandlerExit(c)
    \/ \E c \in Conns : RemoteClose(c)
    \/ RunReturns

CommandSpec == Init /\ [][CommandNext]_vars

\* ---------------------------------------------------------------- fairness
\* the steps of the broadcast_worker task; at most one is enabled at a time
WorkerStep == WorkerIter \/ WorkerGetItem \/ WorkerGetEmpty

\* the asyncio loop runs a task that is ready, and an outstanding
\* websocket.send returns or raises (the library's keepalive closes a dead
\* connection)
Fairness ==
    /\ WF_vars(WorkerStep)
    /\ WF_vars(\E c \in Conns : SafeSendDone(c))

FairSpec == Spec /\ Fairness

\* the steps of the handle_client task of c once c is accepted
HandlerStep(c) == WelcomeDone(c) \/ HandlerExit(c)

\* the worker awaits asyncio.sleep(0.01) in every pass, and the loop then runs
\* the tasks that are ready: when some handler is ready again and again (each
\* time the worker leaves its blocking get) a handler does run.  A handler
\* takes finitely many of these steps, so every ready handler gets its turn.
HandlerFairness == SF_vars(\E c \in Conns : HandlerStep(c))

HandlerFairSpec == Spec /\ WF_vars(WorkerStep) /\ HandlerFairness

\* the worker and the listen loop are tasks of running event loops, sends
\* complete, and the network delivers what was sent
EndToEndFairSpec ==
    EndToEndSpec /\ WF_vars(WorkerStep) /\ WF_vars(SendSucceeds)
                 /\ WF_vars(ListenEntered) /\ WF_vars(Transport)
                 /\ WF_vars(ListenFrame)

\* ------------------------------------------------------------- properties
Range(s) == {s[i] : i \in 1..Len(s)}

Ids(s) == [i \in 1..Len(s) |-> s[i].id]

\* ids of the broadcast events in a connection's log, in log order
BroadcastIds(s) == Ids(SelectSeq(s, IsBroadcast))

\* what c has been delivered, counting the send of the gather still outstanding
Delivered(c) == BroadcastIds(received[c]) \o (IF c \in pending THEN <<cur>> ELSE <<>>)

Quiescent == message_queue = <<>> /\ pending = {} /\ stamped = {}

\* C1: while the hub runs and no send has failed, a client that is still
\* registered has been delivered exactly the events handed to broadcast since
\* it registered, in put order: every event put after its registration and
\* already taken from the queue, none missing, none out of order.
C1_AllInOrder ==
    (loop = "running" /\ failed = {}) =>
        \A c \in clients :
            Delivered(c) = [i \in 1..(Len(enqueued) - Len(message_queue) - regAt[c])
                              |-> enqueued[regAt[c] + i].id]

C1_Witness ==
    /\ loop = "running" /\ failed = {} /\ Quiescent
    /\ Len(enqueued) = 2
    /\ \E c \in clients : regAt[c] = 0 /\ BroadcastIds(received[c]) = <<1, 2>>

\* C2 (as claimed): a client whose send of a broadcast event raised is out of
\* the registry and is sent no event put after that one.
C2_FailedClientEvicted ==
    \A c \in Conns :
        failedAt[c] # 0 =>
            /\ c \notin clients
            /\ \A i \in 1..Len(sent[c]) : sent[c][i].id <= failedAt[c]

\* the step that takes the next event from the queue
TakeStep == WorkerIter \/ WorkerGetItem

\* C3 (as claimed): while the send to one client is outstanding and another
\* client has been served, an event waiting in the queue can be taken and
\* broadcast.
C3_SlowClientDoesNotDelay ==
    (/\ loop = "running" /\ is_running
     /\ pending # {}
     /\ \E d \in clients \ pending : cur \in {m.id : m \in Range(received[d])}
     /\ message_queue # <<>>) => ENABLED TakeStep

\* C4 (as claimed): no connection on which a send has raised is in the registry.
C4_NoFailedMember == \A c \in clients : c \notin failed

\* C5: no broadcast event occurs twice in what one connection was delivered.
C5_AtMostOnce ==
    \A c \in Conns :
        LET got == BroadcastIds(received[c])
        IN \A i, j \in 1..Len(got) : i # j => got[i] # got[j]

C5_Witness ==
    \E c, d \in Conns :
        /\ c # d
        /\ failedAt[d] # 0
        /\ Len(BroadcastIds(received[c])) = 2

\* C6: a put is always possible for a thread that has stamped its event; the
\* events put are exactly those handed to broadcast, once each and in put
\* order, followed by those still queued; and while the hub runs the worker
\* empties the queue again and again, so that (the queue being FIFO) every
\* event put is eventually taken and handed to broadcast.
C6_Conservation ==
    /\ Ids(enqueued) = attempted \o Ids(message_queue)
    /\ \A t \in stamped : ENABLED BroadcastSync(t)

\* C6: nothing is dropped (the conservation above holds in every state) and
\* the queue is emptied infinitely often while the hub runs.
C6_NothingDropped ==
    /\ []C6_Conservation
    /\ []<>(loop # "running" \/ message_queue = <<>>)

C6_Witness ==
    /\ loop = "running"
    /\ Len(enqueued) = 2
    /\ attempted = <<1, 2>>

\* C7 (as claimed): when the hub stops, no event is left in the queue.
C7_DrainedOnShutdown ==
    [][(loop = "running" /\ loop' = "closed") => message_queue' = <<>>]_vars

\* C8 (as claimed): the events in the queue carry non-decreasing timestamps.
C8_TimestampsOrdered ==
    \A i, j \in 1..Len(message_queue) :
        i < j => message_queue[i].timestamp <= message_queue[j].timestamp

\* C9 (as claimed): while the worker waits for a queue item, a handler can
\* accept a connection and a pending reply can complete.
C9_LoopNotBlocked ==
    (loop = "running" /\ wpc = "get") =>
        \A c \in Conns :
            /\ conn[c] = "new" => ENABLED RegisterClient(c)
            /\ hpc[c] = "welcome" => ENABLED WelcomeDone(c)

IsWelcome(m) == m.type = "connection"

WelcomeCount(s) == Len(SelectSeq(s, IsWelcome))

\* C10: the step that registers c puts c in the registry and calls send once,
\* with the welcome, on c and on no other connection; a connection is sent one
\* welcome in its life, and a welcome delivered has status "connected".
C10_WelcomeToNewClientOnly ==
    /\ [][\A c \in Conns :
            (hpc[c] = "new" /\ hpc'[c] # "new") =>
                /\ c \in clients'
                /\ sent'[c] = Append(sent[c], Welcome)
                /\ \A d \in Conns \ {c} : sent'[d] = sent[d]]_vars
    /\ [](\A c \in Conns :
            /\ WelcomeCount(sent[c]) = (IF hpc[c] = "new" THEN 0 ELSE 1)
            /\ WelcomeCount(received[c]) <= 1
            /\ \A m \in Range(received[c]) : IsWelcome(m) => m.status = "connected")

C10_Witness ==
    \E c, d \in Conns :
        /\ c # d
        /\ {c, d} \subseteq clients
        /\ received[c] = <<Welcome>>
        /\ received[d] = <<Welcome>>

\* C11: unregistering is idempotent.  For every registry and connection,
\* registered or not, a second unregister_client changes nothing the first has
\* not done; a handler whose connection _safe_send or send_to_client has
\* already unregistered can still run its finally clause, which (while the
\* hub runs) leaves the registry as it was; and a handler that has ended is
\* not in the registry.
C11_UnregisterIdempotent ==
    /\ [](\A cs \in SUBSET Conns : \A c \in Conns :
            /\ UnregisterClient(UnregisterClient(cs, c), c) = UnregisterClient(cs, c)
            /\ c \notin cs => UnregisterClient(cs, c) = cs)
    /\ [](\A c \in Conns :
            /\ (LoopFree /\ hpc[c] = "read" /\ conn[c] = "closed")
                   => ENABLED HandlerExit(c)
            /\ hpc[c] = "done" => c \notin clients)
    /\ [][\A c \in Conns :
            (hpc[c] = "read" /\ hpc'[c] = "done" /\ loop' = "running"
             /\ c \notin clients) => clients' = clients]_vars

\* the handler of c has run its finally clause after a send on c had raised
\* ConnectionClosed and unregistered c, while the other client stays registered
C11_Witness ==
    \E c, d \in Conns :
        /\ loop = "running"
        /\ hpc[c] = "done" /\ c \in failed /\ faults = 1
        /\ d \in clients

\* C12: a handler that has ended has unregistered its connection, and no send
\* is started on that connection afterwards; and every connection that has
\* closed is eventually one whose handler has ended (a closed connection stays
\* closed and an ended handler stays ended, so: again and again every closed
\* connection is one whose handler has ended).
C12_ClosedUnregistered ==
    /\ [](\A c \in Conns : hpc[c] = "done" => c \notin clients)
    /\ [][\A c \in Conns : hpc[c] = "done" => sent'[c] = sent[c]]_vars
    /\ []<>(\A c \in Conns : conn[c] = "closed" => hpc[c] = "done")

\* c was welcomed, closed and was unregistered by its handler while the hub
\* went on; an event broadcast later reached the other client and not c
C12_Witness ==
    \E c, d \in Conns :
        /\ loop = "running"
        /\ conn[c] = "closed" /\ hpc[c] = "done"
        /\ received[c] = <<Welcome>> /\ sent[c] = <<Welcome>>
        /\ regAt[d] = 0 /\ Len(BroadcastIds(received[d])) = 1

\* the step in which the handler of c reads a frame
Reads(c) == hpc[c] = "read" /\ hpc'[c] = "reply"

Last(q) == q[Len(q)]

IsPing(f) == f.json = "object" /\ f.type = "ping"

OfType(q, ty) == SelectSeq(q, LAMBDA m : m.type = ty)

IsSessionCommand(f) ==
    f.json = "object" /\ f.type \in {"start_session", "stop_session"}

\* the step in which the reply send of c's handler finishes
Replied(c) == hpc[c] = "reply" /\ hpc'[c] = "read"

\* C14: the step that reads a start_session or stop_session on c calls send
\* once, on c and on no other connection, with a session_status whose status
\* is started or stopped accordingly; that step and the step that finishes
\* the reply's send leave the queue, the put history, the running flag and
\* (the connection being open) the registry as they were.
C14_SessionReplyOnly ==
    /\ [][\A c \in Conns :
            (Reads(c) /\ IsSessionCommand(frame'[c])) =>
                /\ Len(sent'[c]) = Len(sent[c]) + 1
                /\ Last(sent'[c]).type = "session_status"
                /\ Last(sent'[c]).status =
                      (IF frame'[c].type = "start_session" THEN "started" ELSE "stopped")
                /\ \A d \in Conns \ {c} : sent'[d] = sent[d]
                /\ UNCHANGED <<message_queue, enqueued, is_running, clients>>]_vars
    /\ [][\A c \in Conns :
            (Replied(c) /\ IsSessionCommand(frame[c])) =>
                /\ UNCHANGED <<message_queue, enqueued, is_running, sent>>
                /\ conn[c] = "open" => clients' = clients]_vars

\* c started and stopped a session and was delivered both replies; the other
\* client, registered all along, was sent its welcome only
C14_Witness ==
    \E c, d \in Conns :
        /\ c # d
        /\ {c, d} \subseteq clients /\ is_running
        /\ received[c] = <<Welcome, SessionStatus("started"), SessionStatus("stopped")>>
        /\ sent[d] = <<Welcome>>
        /\ message_queue = <<>> /\ enqueued = <<>>

\* a JSON object whose type is present and is not a command
IsUnknownType(f) == f.json = "object" /\ f.type \notin CommandTypes \cup {""}

\* c is open, registered and its handler is reading or answering
Serving(c) == conn[c] = "open" /\ c \in clients /\ hpc[c] \in {"read", "reply"}

\* C15: the step that reads a JSON object of an unknown type on c calls send
\* once, on c and on no other connection, with an error whose message names
\* that type; that step and the end of the reply's send leave c open and, c
\* being open, registered; after the reply the handler is reading again and
\* (frames allowing) can read the next frame.
C15_UnknownTypeError ==
    /\ [][\A c \in Conns :
            (Reads(c) /\ IsUnknownType(frame'[c])) =>
                /\ Len(sent'[c]) = Len(sent[c]) + 1
                /\ Last(sent'[c]).type = "error"
                /\ Last(sent'[c]).message = <<"Unknown message type: ", frame'[c].type>>
                /\ \A d \in Conns \ {c} : sent'[d] = sent[d]
                /\ Serving(c) => Serving(c)']_vars
    /\ [][\A c \in Conns :
            (Replied(c) /\ IsUnknownType(frame[c]) /\ loop' = "running") =>
                /\ hpc'[c] = "read"
                /\ Serving(c) => Serving(c)']_vars
    /\ [](\A c \in Conns :
            (LoopFree /\ Serving(c) /\ hpc[c] = "read"
             /\ FramesReadOn(Conns) < MaxFrames)
                => ENABLED HandleMessage(c, [json |-> "object", type |-> "ping"], now))

IsUnknownTypeError(m) == m.type = "error" /\ m.message = <<"Unknown message type: ", "resume">>

\* c sent a frame of type resume and then a ping, and was delivered the error
\* naming resume and then the pong, and is still registered
C15_Witness ==
    \E c \in clients :
        /\ Len(received[c]) = 3
        /\ IsUnknownTypeError(received[c][2])
        /\ received[c][3].type = "pong"
        /\ Serving(c)

IsInvalidJson(f) == f.json = "invalid"

\* C16: the step that reads a frame that is not JSON on c calls send once, on
\* c and on no other connection, with the error "Invalid JSON"; that step and
\* the end of the reply's send leave c open and, c being open, registered;
\* after the reply the handler is reading again and (frames allowing) every
\* kind of frame can be read and answered on c.
C16_InvalidJsonError ==
    /\ [][\A c \in Conns :
            (Reads(c) /\ IsInvalidJson(frame'[c])) =>
                /\ Len(sent'[c]) = Len(sent[c]) + 1
                /\ Last(sent'[c]) = ErrorReply("Invalid JSON", "")
                /\ \A d \in Conns \ {c} : sent'[d] = sent[d]
                /\ Serving(c) => Serving(c)']_vars
    /\ [][\A c \in Conns :
            (Replied(c) /\ IsInvalidJson(frame[c]) /\ loop' = "running") =>
                /\ hpc'[c] = "read"
                /\ Serving(c) => Serving(c)']_vars
    /\ [](\A c \in Conns :
            (LoopFree /\ Serving(c) /\ hpc[c] = "read"
             /\ FramesReadOn(Conns) < MaxFrames)
                => \A b \in FrameBodies : ENABLED HandleMessage(c, b, now))

\* c sent a frame that is not JSON and then start_session, and was delivered
\* the error and then the session_status
C16_Witness ==
    \E c \in clients :
        /\ received[c] = <<Welcome, ErrorReply("Invalid JSON", ""),
                           SessionStatus("started")>>
        /\ Serving(c)

\* C17: the step that hands an event to broadcast calls send on exactly the
\* connections in the registry at that step (on none when the registry is
\* empty: the event is dropped and the worker goes back to sleep); an event
\* handed to broadcast before c registered is never sent on c; no event is
\* sent twice on one connection; and the event whose send to c raised first
\* is not delivered to c later.
C17_OnlyRegisteredAtBroadcast ==
    /\ [][attempted' # attempted =>
            /\ \A c \in Conns : (sent'[c] # sent[c]) <=> (c \in clients)
            /\ \A c \in clients : sent'[c] = Append(sent[c], Head(message_queue))
            /\ clients = {} => (pending' = {} /\ wpc' = "sleep")]_vars
    /\ [](\A c \in Conns :
            LET ids == BroadcastIds(sent[c])
            IN /\ \A i \in 1..Len(ids) : ids[i] > regAt[c]
               /\ \A i, j \in 1..Len(ids) : i # j => ids[i] # ids[j]
               /\ failedAt[c] # 0 =>
                     failedAt[c] \notin Range(BroadcastIds(received[c])))

\* event 1 was broadcast before d registered and event 2 after: d was sent
\* event 2 only, c both
C17_Witness ==
    \E c, d \in Conns :
        /\ regAt[c] = 0 /\ regAt[d] = 1
        /\ BroadcastIds(received[c]) = <<1, 2>>
        /\ BroadcastIds(sent[d]) = <<2>> /\ BroadcastIds(received[d]) = <<2>>

\* C18: a step of a producer thread (stamping an event, putting it) leaves the
\* registry, the running flag and every task and connection of the loop as
\* they were, and a put appends the event to the queue and does nothing else
\* to it; the registry changes only while the loop runs, by one connection
\* registering or one being unregistered, or by the shutdown of the loop.
C18_OnlyQueueShared ==
    /\ [][(enqueued' # enqueued \/ stamped' # stamped) =>
            /\ UNCHANGED <<clients, is_running, loop, wpc, pending, cur, connVars>>
            /\ \/ UNCHANGED <<message_queue, enqueued>>
               \/ /\ Len(enqueued') = Len(enqueued) + 1
                  /\ message_queue' = Append(message_queue, Last(enqueued'))]_vars
    /\ [][clients' # clients =>
            /\ loop = "running"
            /\ UNCHANGED <<message_queue, enqueued, stamped>>
            /\ \/ \E c \in Conns : hpc[c] = "new" /\ clients' = clients \cup {c}
               \/ \E c \in Conns : hpc[c] # "new" /\ clients' = clients \ {c}
               \/ loop' = "closed"]_vars

\* a producer thread has put an event while both clients are registered, one
\* of them closed, and the loop thread sits in the worker's get
C18_Witness ==
    /\ clients = Conns
    /\ \E c \in Conns : conn[c] = "closed"
    /\ wpc = "get"
    /\ Len(message_queue) = 1 /\ Len(enqueued) = 2

\* C19 (as claimed): every broadcast event a client is delivered has a
\* timestamp key, whether or not the dict passed to broadcast_sync had one.
C19_HubFillsTimestamp ==
    \A c \in Conns : \A m \in Range(received[c]) :
        IsBroadcast(m) => "timestamp" \in m.keys

\* C20 (as claimed): once the server has failed to bind, no producer thread
\* stamps or puts an event.
C20_BindFailureStopsProducer ==
    [][loop = "failed" => UNCHANGED <<stamped, enqueued, message_queue>>]_vars

\* C25 (as claimed): every session_status a client is delivered has the keys
\* status, message and timestamp.
C25_SessionStatusFields ==
    \A c \in Conns : \A m \in Range(received[c]) :
        m.type = "session_status" => {"status", "message", "timestamp"} \subseteq m.keys

\* C26: frames travel on a connection in the order send was called with
\* them.  On every accepted connection the first send is the welcome, so no
\* broadcast event precedes it, also when the worker broadcasts while the
\* welcome's send is still outstanding; and the step that registers c both
\* adds c to the registry and calls send with the welcome.
C26_WelcomeFirst ==
    /\ [](\A c \in Conns :
            /\ hpc[c] # "new" => (sent[c] # <<>> /\ IsWelcome(sent[c][1]))
            /\ \A i \in 1..Len(sent[c]) : IsBroadcast(sent[c][i]) => i > 1
            /\ c \in clients => sent[c] # <<>>)
    /\ [][\A c \in Conns :
            (c \notin clients /\ c \in clients') =>
                (sent[c] = <<>> /\ sent'[c] = <<Welcome>>)]_vars

\* the worker has broadcast an event to c while the send of c's welcome is
\* still outstanding
C26_Witness ==
    \E c \in clients :
        /\ hpc[c] = "welcome"
        /\ received[c] = <<>>
        /\ Len(sent[c]) = 2 /\ IsWelcome(sent[c][1]) /\ IsBroadcast(sent[c][2])

\* C27: whatever the frame, the step that reads it on c calls send once, on c
\* and on no other connection, with a reply, and puts nothing on the queue;
\* reading a frame always leads to the await of that reply's send and from
\* there back to reading, so that (while the hub runs) a handler ends only
\* when its connection has closed; and every kind of frame has a reply.
C27_EveryFrameOneReply ==
    /\ [][\A c \in Conns :
            (frame[c] = NoFrame /\ frame'[c] # NoFrame) =>
                /\ Reads(c)
                /\ Len(sent'[c]) = Len(sent[c]) + 1
                /\ IsReply(Last(sent'[c]))
                /\ \A d \in Conns \ {c} : sent'[d] = sent[d]
                /\ UNCHANGED <<message_queue, enqueued>>]_vars
    /\ [][\A c \in Conns :
            (Replied(c) /\ loop' = "running") =>
                /\ hpc'[c] = "read"
                /\ UNCHANGED <<sent, message_queue, enqueued>>]_vars
    /\ [](\A c \in Conns :
            (hpc[c] = "done" /\ loop = "running") => conn[c] = "closed")
    /\ [](\A b \in FrameBodies : IsReply(Reply(Frame(b, now), now)))

\* c sent a JSON value that is no object and then an object without a type,
\* and was delivered one error for each
C27_Witness ==
    \E c \in clients :
        /\ received[c] = <<Welcome, ErrorReply("str(e)", "AttributeError"),
                           ErrorReply("Unknown message type: ", "unknown")>>
        /\ sent[c] = received[c]
        /\ hpc[c] = "read"

\* the events of s that json.dumps can encode
Encodable(s) == SelectSeq(s, Serializable)

\* the events handed to broadcast() since c registered
HandedSince(c) ==
    SubSeq(enqueued, regAt[c] + 1, Len(enqueued) - Len(message_queue))

\* C28: the step in which broadcast() raises on an event calls send on no
\* connection and leaves the worker in its loop, at the next get; no client
\* is ever sent an event that cannot be encoded; the worker task does not end
\* while the hub runs; while no send has failed, a registered client has been
\* delivered exactly the encodable events handed to broadcast since it
\* registered, in put order, those put after a dropped one included; and a
\* worker that is not awaiting a gather can take the event at the head of the
\* queue.
C28_RaiseDropsOneEvent ==
    /\ [][(/\ Len(attempted') = Len(attempted) + 1
           /\ ~Serializable(enqueued[Len(attempted')])
           /\ clients # {}) =>
               (sent' = sent /\ pending' = {} /\ wpc' = "get")]_vars
    /\ [](\A c \in Conns : \A m \in Range(sent[c]) : Serializable(m))
    /\ [](loop = "running" => wpc # "done")
    /\ []((loop = "running" /\ failed = {}) =>
            \A c \in clients : Delivered(c) = Ids(Encodable(HandedSince(c))))
    /\ []((loop = "running" /\ wpc \in {"sleep", "get"} /\ message_queue # <<>>) =>
            ENABLED TakeStep)

\* c was registered when the worker took an event it could not encode, and
\* has been delivered the event put after it
C28_Witness ==
    \E c \in clients :
        /\ loop = "running"
        /\ regAt[c] = 0
        /\ Len(enqueued) = 2
        /\ ~Serializable(enqueued[1])
        /\ BroadcastIds(received[c]) = <<2>>

IsSessionStatus(m, st) == m.type = "session_status" /\ m.status = st

\* C29 (as claimed): the first event run() enqueues is session_status started,
\* put before the loop is entered; session_status stopped is enqueued at most
\* once; and once run() has left its loop and ended, stopped has been enqueued
\* exactly once and nothing is enqueued after it.
C29_StartedFirstStoppedLast ==
    /\ ppc # "init" => (enqueued # <<>> /\ IsSessionStatus(enqueued[1], "started"))
    /\ Len(OfType(enqueued, "session_status")) <= 2
    /\ \A i \in 1..Len(enqueued) :
           IsSessionStatus(enqueued[i], "stopped") => i = Len(enqueued)
    /\ ppc \in {"returned", "interrupted"} =>
           IsSessionStatus(Last(enqueued), "stopped")

\* C21: a connect(max_retries, ...) call makes at most max_retries attempts,
\* the k-th after k - 1 waits; it returns True in the step of the first
\* attempt that succeeds, with is_running set, and attempts no more; it
\* returns False only after max_retries failed attempts and max_retries - 1
\* waits (none of either when max_retries is 0); and every call returns.
C21_ConnectBounded ==
    /\ [](attempts <= max_retries)
    /\ [](cpc = "attempt" =>
            (attempts = attempt /\ waits = attempt /\ attempt < max_retries))
    /\ [](cpc = "wait" => (waits = attempts /\ attempts < max_retries))
    /\ [](result = "false" =>
            /\ attempts = max_retries
            /\ waits = (IF max_retries = 0 THEN 0 ELSE max_retries - 1)
            /\ cpc = "idle")
    /\ [](result = "true" => (waits = attempts - 1 /\ cpc \notin {"attempt", "wait"}))
    /\ [][(result # "true" /\ result' = "true") =>
            (cli_running' /\ attempts' = attempts + 1)]_vars
    /\ [][(result = "true" /\ result' = "true") => attempts' = attempts]_vars
    /\ (cpc \in {"attempt", "wait"}) ~> (result # "none")

\* connect(2) has returned True at its second attempt, after one wait
C21_Witness ==
    /\ result = "true"
    /\ max_retries = 2
    /\ attempts = 2
    /\ waits = 1
    /\ cli_running

\* an object whose type is missing or none of those handle_message knows
UnknownTyped(f) == f.json = "object" /\ ClientMsgType(f) \notin KnownTypes

\* the listen loop takes the next frame of the socket
Takes == cpc = "listen" /\ nread' = nread + 1

\* C22: the pass of the listen loop that takes an object with a missing or
\* unknown type calls handle_message with it, which raises nothing and leaves
\* the dashboard state, the timeline and is_running as they were; the loop
\* stays in listen(), where every frame not yet taken can be taken.
C22_UnknownTypeIgnored ==
    /\ [][(Takes /\ UnknownTyped(wire[nread + 1])) =>
            /\ dispatched' = Append(dispatched, wire[nread + 1])
            /\ UNCHANGED <<dashboard, timeline, cli_running, cpc>>]_vars
    /\ [](\A f \in ServerFrames : UnknownTyped(f) => ~HandleRaises(f))
    /\ []((cpc = "listen" /\ nread < Len(wire)) => ENABLED ListenFrame)

\* between two meeting updates the client was sent an object without a type:
\* the timeline holds both updates
C22_Witness ==
    /\ cli_running
    /\ Len(dispatched) = 3
    /\ ClientMsgType(dispatched[1]) = "meeting_update"
    /\ dispatched[2] = ServerFrame("", "", "", 0, {})
    /\ ClientMsgType(dispatched[3]) = "meeting_update"
    /\ Len(timeline) = 2
    /\ dashboard.emotional_state = "calm"

\* the moves of run(): DISCONNECTED is idle, CONNECTING is attempt and wait,
\* CONNECTED is connected, LISTENING is listen; listened is run()'s finally
\* clause, before disconnect()
ClientMoves ==
    { <<"idle", "attempt">>, <<"attempt", "wait">>, <<"wait", "attempt">>,
      <<"attempt", "connected">>, <<"attempt", "idle">>,
      <<"connected", "listen">>, <<"listen", "listened">>, <<"listened", "idle">> }

\* C23: the client moves only along DISCONNECTED -> CONNECTING -> CONNECTED ->
\* LISTENING -> DISCONNECTED (from CONNECTING back to DISCONNECTED when
\* connect() fails); is_running is true only between a connect() that
\* returned True and the return of listen(), and false once listen() has
\* returned or disconnect() has run; listen() is entered only from a connect()
\* that returned True; and from DISCONNECTED connect() can be called again and
\* its attempt can succeed.
C23_ClientStateMachine ==
    /\ [][cpc' # cpc => <<cpc, cpc'>> \in ClientMoves]_vars
    /\ [](cli_running =>
            (cpc \in {"connected", "listen"} /\ result = "true" /\ websocket # "none"))
    /\ [](cpc \in {"listened", "idle", "attempt", "wait"} => ~cli_running)
    /\ [][(cpc # "listen" /\ cpc' = "listen") =>
            (cpc = "connected" /\ result = "true" /\ cli_running)]_vars
    /\ [](result = "false" => cpc = "idle")
    /\ [](cpc = "idle" => \A m \in 1..MaxRetries : ENABLED ConnectCalled(m))
    /\ [](cpc = "attempt" => ENABLED ConnectAttempt(TRUE))

\* a second connect() has succeeded: the client is connected again, after a
\* session in which it took a frame and whose connection the server closed
C23_Witness ==
    /\ cpc = "connected"
    /\ cli_running
    /\ websocket = "open"
    /\ dispatched # <<>>

\* the frames of s that json.loads accepts
Parsed(s) == SelectSeq(s, Parses)

\* a can be had from b by leaving elements out
RECURSIVE IsSubSeq(_, _)
IsSubSeq(a, b) ==
    IF a = <<>> THEN TRUE
    ELSE IF b = <<>> THEN FALSE
    ELSE IF Head(a) = Head(b) THEN IsSubSeq(Tail(a), Tail(b))
    ELSE IsSubSeq(a, Tail(b))

\* a frame that json.loads rejects or on which handle_message raises
Faulty(f) == ~Parses(f) \/ HandleRaises(f)

\* C30: the pass of the listen loop that takes a frame which is no JSON, or
\* on which handle_message raises, leaves the loop in listen() with is_running
\* as it was and the display state untouched; every pass calls handle_message
\* with the frame it takes exactly when that frame is JSON, so that the calls
\* are in arrival order (frames a cancelled listen() left behind are never
\* taken); and in listen() every frame not yet taken can be taken.
C30_ListenSurvives ==
    /\ [][(Takes /\ Faulty(wire[nread + 1])) =>
            /\ cpc' = "listen"
            /\ UNCHANGED <<cli_running, dashboard, timeline>>]_vars
    /\ [][Takes =>
            dispatched' = (IF Parses(wire[nread + 1])
                           THEN Append(dispatched, wire[nread + 1])
                           ELSE dispatched)]_vars
    /\ [](cpc = "listen" => cli_running)
    /\ []((cpc = "listen" /\ nread < Len(wire)) => ENABLED ListenFrame)
    /\ [](IsSubSeq(dispatched, Parsed(SubSeq(wire, 1, nread))))

\* after a frame that is no JSON and an emotion_update whose confidence is no
\* number, the client has applied the meeting update that followed
C30_Witness ==
    /\ cpc = "listen" /\ cli_running
    /\ nread = 3
    /\ wire[1] = InvalidFrame
    /\ ClientMsgType(wire[2]) = "emotion_update"
    /\ dispatched = <<wire[2], wire[3]>>
    /\ ClientMsgType(wire[3]) = "meeting_update"
    /\ Len(timeline) = 1

\* the meeting updates the client has dispatched
Updates == OfType(dispatched, "meeting_update")

\* the event of the producer that the k-th update dispatched by the client
\* came from: the k-th handed to broadcast since the client registered
Origin(k) == enqueued[regAt[ClientConn] + k]

Status(e) == [emotional_state |-> e.emotional_state, confidence |-> e.confidence]

\* C24: the first frame the client takes is the welcome; when the client has
\* dispatched k meeting updates, its timeline holds k entries, the j-th with
\* the emotional state and confidence of the j-th event the producer enqueued
\* since the client registered, and the dashboard's current status is that of
\* the k-th; the pass that dispatches one adds exactly one entry; and once
\* the client is registered it catches up again and again with the events
\* enqueued since, so that each of them is eventually dispatched.
C24_EndToEnd ==
    /\ [](wire # <<>> => wire[1] = WelcomeFrame)
    /\ [](LET k == Len(Updates)
          IN /\ k <= Len(enqueued) - regAt[ClientConn]
             /\ Len(timeline) = k
             /\ \A j \in 1..k : timeline[j] = Status(Origin(j))
             /\ dashboard = (IF k = 0 THEN NoStatus ELSE Status(Origin(k))))
    /\ [][(Takes /\ ClientMsgType(wire[nread + 1]) = "meeting_update") =>
            Len(timeline') = Len(timeline) + 1]_vars
    /\ []<>(hpc[ClientConn] # "new" =>
                Len(Updates) = Len(enqueued) - regAt[ClientConn])

\* the client has dispatched the welcome and then a meeting_update the
\* producer enqueued with calm and 0.8, and shows them
C24_Witness ==
    /\ Len(dispatched) = 2
    /\ dispatched[1] = WelcomeFrame
    /\ ClientMsgType(dispatched[2]) = "meeting_update"
    /\ Status(Origin(1)) = [emotional_state |-> "calm", confidence |-> 8]
    /\ dashboard = [emotional_state |-> "calm", confidence |-> 8]
    /\ Len(timeline) = 1

=============================================================================
